---- MODULE Spec2Model ----
(***************************************************************************)
(* A model of the near-Earth-object database (database.py), its record     *)
(* types (models.py) and the date helpers (helpers.py).                    *)
(*                                                                         *)
(* Python values are represented as follows.                               *)
(*   - an optional string is a tuple: <<>> is None, <<"x">> is the str "x", *)
(*     <<"">> is the empty str;                                            *)
(*   - a float is a tuple: <<>> is NaN, <<n>> is n hundredths (n / 100.0); *)
(*   - a str that is compared or concatenated character by character (the  *)
(*     sort key) is a sequence of code points;                             *)
(*   - an object reference is the object's position in the collection the  *)
(*     loader produced (0 is None): NEOs by position in neos, close        *)
(*     approaches by position in cas.                                      *)
(***************************************************************************)
EXTENDS Integers, Sequences, FiniteSets, TLC

VARIABLES
    neos,                 \* the NearEarthObjects, in the order of the input collection
    cas,                  \* the CloseApproach objects, in the order of the input collection
    approaches,           \* NEODatabase._approaches: approach references, in container order
    isList,               \* the approaches container is a list (TRUE) or a tuple (FALSE)
    zeroPadYear,          \* the platform's strftime pads %Y to four digits
    neos_by_name,         \* NEODatabase._neos_by_name
    neos_by_designation,  \* NEODatabase._neos_by_designation
    pc,                   \* "new": not constructed, "ready": constructed, "raised": __init__ raised
    gens,                 \* the generator objects query() returned
    calls                 \* the filter invocations made: <<generator, filter position, approach>>

vars == <<neos, cas, approaches, isList, zeroPadYear, neos_by_name,
          neos_by_designation, pc, gens, calls>>

dbvars == <<neos, cas, approaches, isList, zeroPadYear, neos_by_name,
            neos_by_designation, pc>>

\* ------------------------------------------------------------------ bounds

MaxNeos == 2

MaxApproaches == 3

\* ------------------------------------------------------------ Python values

None == <<>>

Str(s) == <<s>>

\* bool(v) of an optional string: None and "" are falsy.
Truthy(v) == v # None /\ v # Str("")

NaN == <<>>

Float(n) == <<n>>

\* float(s) for the numeric strings of the input rows, in hundredths.
ParseFloat(s) ==
    CASE s = "0.15" -> Float(15)
      [] s = "0.5"  -> Float(50)
      [] s = "1.5"  -> Float(150)
      [] s = "5.0"  -> Float(500)
      [] s = "9"    -> Float(900)
      [] s = "10"   -> Float(1000)

\* ------------------------------------------------------------------ strings

\* The decimal digits of n, as code points.
RECURSIVE Digits(_)
Digits(n) == IF n < 10 THEN <<48 + n>> ELSE Digits(n \div 10) \o <<48 + (n % 10)>>

RECURSIVE ZeroPad(_, _)
ZeroPad(s, w) == IF Len(s) >= w THEN s ELSE ZeroPad(<<48>> \o s, w)

\* str(x) of a float: repr's shortest form, "nan" for NaN.
FloatStr(x) ==
    IF x = NaN THEN <<110, 97, 110>>
    ELSE LET n == x[1]
             frac == n % 100
         IN  Digits(n \div 100) \o <<46>> \o
             (IF frac % 10 = 0 THEN <<48 + (frac \div 10)>>
                               ELSE <<48 + (frac \div 10), 48 + (frac % 10)>>)

\* str(b) of a bool: "True" or "False".
BoolStr(b) == IF b THEN <<84, 114, 117, 101>> ELSE <<70, 97, 108, 115, 101>>

\* s < t for str: by code point, a proper prefix first.
StrLt(s, t) ==
    \E i \in 1..Len(t) :
        /\ i <= Len(s) + 1
        /\ \A j \in 1..(i - 1) : s[j] = t[j]
        /\ (i = Len(s) + 1 \/ s[i] < t[i])

\* --------------------------------------------------------------- helpers.py

\* strptime(calendar_date, "%Y-%b-%d %H:%M") for the timestamps of the input rows.
cd_to_datetime(calendar_date) ==
    CASE calendar_date = "0999-Dec-31 23:59" -> [year |-> 999, month |-> 12, day |-> 31, hour |-> 23, minute |-> 59]
      [] calendar_date = "1000-Jan-01 00:00" -> [year |-> 1000, month |-> 1, day |-> 1, hour |-> 0, minute |-> 0]
      [] calendar_date = "2020-Jan-01 00:00" -> [year |-> 2020, month |-> 1, day |-> 1, hour |-> 0, minute |-> 0]
      [] calendar_date = "2020-Feb-10 12:30" -> [year |-> 2020, month |-> 2, day |-> 10, hour |-> 12, minute |-> 30]

\* strftime(dt, "%Y-%m-%d %H:%M"); %Y of a year below 1000 is padded to four
\* digits or not, as the platform's C library does.
datetime_to_str(dt) ==
    (IF zeroPadYear THEN ZeroPad(Digits(dt.year), 4) ELSE Digits(dt.year))
    \o <<45>> \o ZeroPad(Digits(dt.month), 2)
    \o <<45>> \o ZeroPad(Digits(dt.day), 2)
    \o <<32>> \o ZeroPad(Digits(dt.hour), 2)
    \o <<58>> \o ZeroPad(Digits(dt.minute), 2)

\* dt1 <= dt2 for naive datetimes.
DatetimeLe(dt1, dt2) ==
    LET t1 == <<dt1.year, dt1.month, dt1.day, dt1.hour, dt1.minute>>
        t2 == <<dt2.year, dt2.month, dt2.day, dt2.hour, dt2.minute>>
    IN  t1 = t2 \/ StrLt(t1, t2)

\* ---------------------------------------------------------------- models.py

NearEarthObject(info) ==
    [designation |-> Str(info.pdes),
     name        |-> IF info.name # "" THEN Str(info.name) ELSE None,
     diameter    |-> IF info.diameter # "" THEN ParseFloat(info.diameter) ELSE NaN,
     hazardous   |-> IF info.pha = "Y" THEN TRUE ELSE FALSE,
     approaches  |-> <<>>]

CloseApproach(info) ==
    [designation |-> Str(info.des),
     time        |-> cd_to_datetime(info.cd),
     distance    |-> IF info.dist # "" THEN ParseFloat(info.dist) ELSE NaN,
     velocity    |-> IF info.v_rel # "" THEN ParseFloat(info.v_rel) ELSE NaN,
     neo         |-> 0]

time_str(a) == datetime_to_str(a.time)

\* -------------------------------------------------------------- database.py

\* d[key] = v
DictSet(d, key, v) == [x \in DOMAIN d \cup {key} |-> IF x = key THEN v ELSE d[x]]

\* Lines 57-58 without the `if neo.name` guard.
IndexNameStepUnguarded(d, ns, k) == DictSet(d, ns[k].name, k)

\* Lines 57-58, for the k-th NEO.
IndexNameStep(d, ns, k) ==
    IF Truthy(ns[k].name) THEN DictSet(d, ns[k].name, k) ELSE d

\* Lines 59-60 keeping the first NEO of a designation (dict.setdefault).
IndexDesignationStepFirstWins(d, ns, k) ==
    IF Truthy(ns[k].designation) /\ ns[k].designation \notin DOMAIN d
    THEN DictSet(d, ns[k].designation, k) ELSE d

\* Lines 59-60, for the k-th NEO.
IndexDesignationStep(d, ns, k) ==
    IF Truthy(ns[k].designation) THEN DictSet(d, ns[k].designation, k) ELSE d

\* The two dicts after the index loop has run over ns[1..k].
RECURSIVE IndexLoop(_, _)
IndexLoop(ns, k) ==
    IF k = 0 THEN [byName |-> <<>>, byDes |-> <<>>]
    ELSE LET d == IndexLoop(ns, k - 1)
         IN  [byName |-> IndexNameStep(d.byName, ns, k),
              byDes  |-> IndexDesignationStep(d.byDes, ns, k)]

\* `if key in d: return d[key]` / `return None`
DictGet(d, key) == IF key \in DOMAIN d THEN d[key] ELSE 0

get_neo_by_designation(designation) == DictGet(neos_by_designation, designation)

get_neo_by_name(name) == DictGet(neos_by_name, name)

\* Lines 68-69 without `approach.neo = neo`.
LinkStepNoBackReference(st, a, neo) ==
    [ns |-> [st.ns EXCEPT ![neo].approaches = Append(@, a)], cs |-> st.cs]

\* Lines 68-69 with the approach inserted at the front of neo.approaches.
LinkStepPrepend(st, a, neo) ==
    [ns |-> [st.ns EXCEPT ![neo].approaches = <<a>> \o @],
     cs |-> [st.cs EXCEPT ![a].neo = neo]]

\* Lines 68-69: link approach a and NEO neo to each other.
LinkStep(st, a, neo) ==
    [ns |-> [st.ns EXCEPT ![neo].approaches = Append(@, a)],
     cs |-> [st.cs EXCEPT ![a].neo = neo]]

\* The objects after the link loop has run over the first k approaches
\* of the container.
RECURSIVE LinkLoop(_, _, _, _, _)
LinkLoop(ns, cs, order, byDes, k) ==
    IF k = 0 THEN [ns |-> ns, cs |-> cs]
    ELSE LET st  == LinkLoop(ns, cs, order, byDes, k - 1)
             a   == order[k]
             neo == DictGet(byDes, st.cs[a].designation)
         IN  IF neo # 0 THEN LinkStep(st, a, neo) ELSE st

\* The sort key of approach a; defined only when a.neo is not None.
SortKey(a, ns) ==
    time_str(a) \o FloatStr(a.distance) \o FloatStr(a.velocity)
    \o FloatStr(ns[a.neo].diameter) \o BoolStr(ns[a.neo].hazardous)

\* list.sort(key=..., reverse=True): stable, descending by key.
RECURSIVE SortByKeyReversed(_, _, _)
SortByKeyReversed(order, cs, ns) ==
    IF order = <<>> THEN <<>>
    ELSE LET n    == Len(order)
             rest == SortByKeyReversed(SubSeq(order, 1, n - 1), cs, ns)
             x    == order[n]
             kx   == SortKey(cs[x], ns)
             p    == Cardinality({i \in 1..Len(rest) : ~StrLt(SortKey(cs[rest[i]], ns), kx)})
         IN  SubSeq(rest, 1, p) \o <<x>> \o SubSeq(rest, p + 1, Len(rest))

\* list.sort(key=...): stable, ascending by key.
RECURSIVE SortByKey(_, _, _)
SortByKey(order, cs, ns) ==
    IF order = <<>> THEN <<>>
    ELSE LET n    == Len(order)
             rest == SortByKey(SubSeq(order, 1, n - 1), cs, ns)
             x    == order[n]
             kx   == SortKey(cs[x], ns)
             \* x goes after every element whose key is not greater
             p    == Cardinality({i \in 1..Len(rest) : ~StrLt(kx, SortKey(cs[rest[i]], ns))})
         IN  SubSeq(rest, 1, p) \o <<x>> \o SubSeq(rest, p + 1, Len(rest))

\* NEODatabase.__init__(neos, approaches)
Construct ==
    /\ pc = "new"
    /\ LET byName == IndexLoop(neos, Len(neos)).byName
           byDes  == IndexLoop(neos, Len(neos)).byDes
           st     == LinkLoop(neos, cas, approaches, byDes, Len(approaches))
           ns     == st.ns
           cs     == st.cs
       IN  /\ neos_by_name' = byName
           /\ neos_by_designation' = byDes
           /\ neos' = ns
           /\ cas' = cs
           /\ IF isList
              THEN IF \E i \in 1..Len(cs) : cs[approaches[i]].neo = 0
                   \* the key function dereferences None: AttributeError, and
                   \* list.sort leaves the list as it was
                   THEN pc' = "raised" /\ approaches' = approaches
                   ELSE pc' = "ready" /\ approaches' = SortByKey(approaches, cs, ns)
              ELSE pc' = "ready" /\ approaches' = approaches
    /\ UNCHANGED <<isList, zeroPadYear, gens, calls>>

\* ------------------------------------------------------------ the filters

\* f(approach) of an attribute filter: op(get(approach), value). A comparison
\* with NaN is False.
FilterCall(f, a) ==
    LET x == IF f.attr = "distance" THEN a.distance ELSE a.velocity
    IN  /\ x # NaN
        /\ f.value # None
        /\ IF f.op = "le" THEN x[1] <= f.value[1] ELSE x[1] >= f.value[1]

\* `f.value != None` with the test left out.
IsSetAlways(f) == TRUE

\* `f.value != None`
IsSet(f) == f.value # None

\* any(...) in place of all(...): accepted when some set filter accepts.
RECURSIVE AnyFrom(_, _, _)
AnyFrom(filters, a, k) ==
    IF k > Len(filters) THEN [ok |-> FALSE, invoked |-> {}]
    ELSE IF ~IsSet(filters[k]) THEN AnyFrom(filters, a, k + 1)
    ELSE IF FilterCall(filters[k], cas[a]) THEN [ok |-> TRUE, invoked |-> {k}]
    ELSE LET r == AnyFrom(filters, a, k + 1)
         IN  [ok |-> r.ok, invoked |-> r.invoked \cup {k}]

\* all(f(approach) for f in filters if f.value != None), from the k-th filter
\* on: the verdict and the positions of the filters it invoked (all() stops
\* at the first False).
RECURSIVE AllFrom(_, _, _)
AllFrom(filters, a, k) ==
    IF k > Len(filters) THEN [ok |-> TRUE, invoked |-> {}]
    ELSE IF ~IsSet(filters[k]) THEN AllFrom(filters, a, k + 1)
    ELSE IF FilterCall(filters[k], cas[a])
         THEN LET r == AllFrom(filters, a, k + 1)
              IN  [ok |-> r.ok, invoked |-> r.invoked \cup {k}]
         ELSE [ok |-> FALSE, invoked |-> {k}]

\* ------------------------------------------------------------------- query

Generators == {1, 2}

NoGenerator == [state |-> "none", filters |-> <<>>, pos |-> 0, out |-> <<>>]

\* The body of query() run from container position i until it yields or
\* returns: whether it yielded, the position it stopped at and the filter
\* invocations it made.
RECURSIVE ScanFrom(_, _)
ScanFrom(filters, i) ==
    IF i > Len(approaches)
    THEN [found |-> FALSE, pos |-> Len(approaches), invoked |-> {}]
    ELSE LET r    == AllFrom(filters, approaches[i], 1)
             here == {<<k, approaches[i]>> : k \in r.invoked}
         IN  IF r.ok
             THEN [found |-> TRUE, pos |-> i, invoked |-> here]
             ELSE LET rest == ScanFrom(filters, i + 1)
                  IN  [rest EXCEPT !.invoked = @ \cup here]

\* One position of the container shared by every generator.
ResumeShared(g) ==
    1 + (CHOOSE p \in {gens[h].pos : h \in Generators} :
            \A h \in Generators : gens[h].pos <= p)

\* The container position generator g's `for` loop continues from.
Resume(g) == gens[g].pos + 1

\* query(filters) building the whole result before returning it.
QueryEager(g, filters) ==
    /\ pc = "ready"
    /\ gens[g].state = "none"
    /\ gens' = [gens EXCEPT ![g] = [NoGenerator EXCEPT !.state = "created", !.filters = filters]]
    /\ calls' = calls \cup
           {c \in {g} \X (1..Len(filters)) \X (1..Len(cas)) :
               c[2] \in AllFrom(filters, c[3], 1).invoked}
    /\ UNCHANGED dbvars

\* query(filters): a call of a generator function runs none of its body.
Query(g, filters) ==
    /\ pc = "ready"
    /\ gens[g].state = "none"
    /\ gens' = [gens EXCEPT ![g] = [NoGenerator EXCEPT !.state = "created", !.filters = filters]]
    /\ UNCHANGED <<dbvars, calls>>

\* next(generator): the body runs to its next yield, or to its end.
Pull(g) ==
    /\ gens[g].state \in {"created", "suspended"}
    /\ LET r == ScanFrom(gens[g].filters, Resume(g))
       IN  /\ gens' = [gens EXCEPT ![g] =
                          [@ EXCEPT !.state = IF r.found THEN "suspended" ELSE "exhausted",
                                    !.pos   = r.pos,
                                    !.out   = IF r.found THEN Append(@, approaches[r.pos]) ELSE @]]
           /\ calls' = calls \cup {<<g, c[1], c[2]>> : c \in r.invoked}
    /\ UNCHANGED dbvars

\* ------------------------------------------------------------ specifications

SeqsUpTo(S, n) == UNION {[1..k -> S] : k \in 0..n}

InitWith(neoLists, approachRows, pads) ==
    /\ \E rows \in neoLists :
           neos = [n \in 1..Len(rows) |-> NearEarthObject(rows[n])]
    /\ \E rows \in SeqsUpTo(approachRows, MaxApproaches) :
           /\ cas = [i \in 1..Len(rows) |-> CloseApproach(rows[i])]
           /\ approaches = [i \in 1..Len(rows) |-> i]
    /\ isList \in BOOLEAN
    /\ zeroPadYear \in pads
    /\ neos_by_name = <<>>
    /\ neos_by_designation = <<>>
    /\ pc = "new"
    /\ gens = [g \in Generators |-> NoGenerator]
    /\ calls = {}

\* The database by itself: NEOs of every designation and name, approaches of
\* every join key.
DbNeoRows ==
    [pdes : {"", "a", "b"}, name : {"", "x"}, diameter : {"1.5"}, pha : {"Y"}]

DbApproachRows ==
    {[des |-> "",  cd |-> "2020-Jan-01 00:00", dist |-> "0.15", v_rel |-> "5.0"],
     [des |-> "a", cd |-> "2020-Feb-10 12:30", dist |-> "0.15", v_rel |-> "5.0"],
     [des |-> "a", cd |-> "2020-Jan-01 00:00", dist |-> "0.15", v_rel |-> "5.0"],
     [des |-> "c", cd |-> "2020-Jan-01 00:00", dist |-> "0.15", v_rel |-> "5.0"]}

InitDB == InitWith(SeqsUpTo(DbNeoRows, MaxNeos), DbApproachRows, {FALSE})

NextDB == Construct

SpecDB == InitDB /\ [][NextDB]_vars

\* The sort: two NEOs that differ in diameter and hazard flag, approaches
\* linked to either, with timestamps on both sides of the year 1000, on a
\* platform that pads the year and on one that does not.
SortNeoRows ==
    <<[pdes |-> "a", name |-> "", diameter |-> "", pha |-> "N"],
      [pdes |-> "b", name |-> "x", diameter |-> "1.5", pha |-> "Y"]>>

SortApproachRows ==
    {[des |-> "a", cd |-> "0999-Dec-31 23:59", dist |-> "9",  v_rel |-> "5.0"],
     [des |-> "a", cd |-> "1000-Jan-01 00:00", dist |-> "9",  v_rel |-> "5.0"],
     [des |-> "a", cd |-> "1000-Jan-01 00:00", dist |-> "10", v_rel |-> "5.0"],
     [des |-> "b", cd |-> "1000-Jan-01 00:00", dist |-> "10", v_rel |-> "5.0"],
     [des |-> "b", cd |-> "1000-Jan-01 00:00", dist |-> "10", v_rel |-> ""],
     [des |-> "b", cd |-> "2020-Jan-01 00:00", dist |-> "9",  v_rel |-> "5.0"]}

InitSort == InitWith({SortNeoRows}, SortApproachRows, BOOLEAN)

SpecSort == InitSort /\ [][NextDB]_vars

\* The database and its queries: one NEO, approaches that the filters tell apart.
QueryNeoRow == [pdes |-> "a", name |-> "x", diameter |-> "1.5", pha |-> "Y"]

QueryApproachRows ==
    {[des |-> "a", cd |-> "2020-Jan-01 00:00", dist |-> "0.15", v_rel |-> "5.0"],
     [des |-> "a", cd |-> "2020-Feb-10 12:30", dist |-> "10",   v_rel |-> "5.0"],
     [des |-> "c", cd |-> "2020-Jan-01 00:00", dist |-> "0.15", v_rel |-> ""],
     [des |-> "a", cd |-> "2020-Jan-01 00:00", dist |-> "",     v_rel |-> "9"]}

MaxDistance(v) == [attr |-> "distance", op |-> "le", value |-> v]

MinVelocity(v) == [attr |-> "velocity", op |-> "ge", value |-> v]

FilterTuples ==
    {<<>>,
     <<MaxDistance(ParseFloat("0.5"))>>,
     <<MaxDistance(None)>>,
     <<MaxDistance(ParseFloat("0.5")), MinVelocity(ParseFloat("5.0"))>>,
     <<MaxDistance(None), MinVelocity(ParseFloat("5.0"))>>,
     <<MinVelocity(ParseFloat("5.0"))>>}

Init == InitWith({<<QueryNeoRow>>}, QueryApproachRows, {FALSE})

Next ==
    \/ Construct
    \/ \E g \in Generators, filters \in FilterTuples : Query(g, filters)
    \/ \E g \in Generators : Pull(g)

Spec == Init /\ [][Next]_vars

\* ------------------------------------------------- properties of the database

Range(f) == {f[x] : x \in DOMAIN f}

\* The last NEO of the input collection that carries designation d (0: none).
LastNeoWithDesignation(d) ==
    LET S == {n \in 1..Len(neos) : neos[n].designation = d}
    IN  IF S = {} THEN 0 ELSE CHOOSE n \in S : \A m \in S : m <= n

\* The last NEO of the input collection that carries name v (0: none).
LastNeoWithName(v) ==
    LET S == {n \in 1..Len(neos) : neos[n].name = v}
    IN  IF S = {} THEN 0 ELSE CHOOSE n \in S : \A m \in S : m <= n

\* The keys the lookups are probed with: every key of the input, None, the
\* empty string and keys no row carries.
ProbeKeys ==
    {neos[n].designation : n \in 1..Len(neos)} \cup {neos[n].name : n \in 1..Len(neos)}
    \cup {cas[a].designation : a \in 1..Len(cas)}
    \cup {None, Str(""), Str("a"), Str("x"), Str("zz")}

\* Approach a's join key is the designation of some input NEO.
Matched(a) == \E n \in 1..Len(neos) : neos[n].designation = cas[a].designation

\* Approach a is linked to the NEO indexed under its join key, which is the
\* last NEO carrying that designation, and is in that NEO's approaches.
LinkedToIndexed(a) ==
    /\ cas[a].neo # 0
    /\ cas[a].neo = get_neo_by_designation(cas[a].designation)
    /\ cas[a].neo = LastNeoWithDesignation(cas[a].designation)
    /\ a \in Range(neos[cas[a].neo].approaches)

\* C1 as stated: after construction every approach whose join key equals the
\* designation of some input NEO is linked to the NEO get_neo_by_designation
\* returns for the key (the last such NEO) and is in that NEO's approaches.
C1_LinkedAsStated ==
    pc = "ready" => \A a \in 1..Len(cas) : Matched(a) => LinkedToIndexed(a)

\* C1 amended: the same, for every approach whose join key is a non-empty
\* string equal to the designation of some input NEO.
C1_Linked ==
    pc = "ready" =>
        \A a \in 1..Len(cas) :
            (Matched(a) /\ Truthy(cas[a].designation)) => LinkedToIndexed(a)

\* A constructed database with an approach whose designation two NEOs carry.
C1_Witness ==
    /\ pc = "ready"
    /\ \E a \in 1..Len(cas) :
           /\ Truthy(cas[a].designation)
           /\ Cardinality({n \in 1..Len(neos) : neos[n].designation = cas[a].designation}) = 2
           /\ cas[a].neo = 2

\* C3 as stated: after construction get_neo_by_designation(N.designation) is
\* the last input NEO carrying that designation, for every input NEO N whose
\* designation is not None; a designation no input NEO carries gives None.
C3_ByDesignationAsStated ==
    pc = "ready" =>
        /\ \A n \in 1..Len(neos) :
               neos[n].designation # None =>
                   get_neo_by_designation(neos[n].designation)
                       = LastNeoWithDesignation(neos[n].designation)
        /\ \A d \in ProbeKeys :
               LastNeoWithDesignation(d) = 0 => get_neo_by_designation(d) = 0

\* C3 amended: the same for every input NEO whose designation is a non-empty
\* string; a designation no input NEO carries, and the empty designation, give None.
C3_ByDesignation ==
    pc = "ready" =>
        /\ \A n \in 1..Len(neos) :
               Truthy(neos[n].designation) =>
                   get_neo_by_designation(neos[n].designation)
                       = LastNeoWithDesignation(neos[n].designation)
        /\ \A d \in ProbeKeys :
               (LastNeoWithDesignation(d) = 0 \/ ~Truthy(d)) => get_neo_by_designation(d) = 0

\* A constructed database with two NEOs of one designation and a probe that misses.
C3_Witness ==
    /\ pc = "ready"
    /\ Len(neos) = 2
    /\ neos[1].designation = neos[2].designation
    /\ get_neo_by_designation(neos[1].designation) = 2
    /\ get_neo_by_designation(Str("zz")) = 0

\* C4: after construction get_neo_by_name(N.name) is the last input NEO
\* carrying that name, for every input NEO N with a non-empty name, and
\* get_neo_by_name(None) and get_neo_by_name("") are None.
C4_ByName ==
    pc = "ready" =>
        /\ \A n \in 1..Len(neos) :
               Truthy(neos[n].name) =>
                   get_neo_by_name(neos[n].name) = LastNeoWithName(neos[n].name)
        /\ get_neo_by_name(None) = 0
        /\ get_neo_by_name(Str("")) = 0

\* A constructed database with a nameless NEO and a named one that is found.
C4_Witness ==
    /\ pc = "ready"
    /\ \E n, m \in 1..Len(neos) :
           /\ neos[n].name = None
           /\ Truthy(neos[m].name)
           /\ get_neo_by_name(neos[m].name) = m
    /\ get_neo_by_name(None) = 0

\* The approaches of the input collection, in input order, whose join key is d.
InputApproachesWith(d) ==
    SelectSeq([i \in 1..Len(cas) |-> i], LAMBDA i : cas[i].designation = d)

\* C10: after construction the NEO indexed under a designation holds exactly
\* the input approaches with that join key, in input order, every other NEO
\* holds none, and no approach is held twice or by two NEOs.
C10_Ownership ==
    pc = "ready" =>
        /\ \A n \in 1..Len(neos) :
               neos[n].approaches =
                   IF n \in Range(neos_by_designation)
                   THEN InputApproachesWith(neos[n].designation)
                   ELSE <<>>
        /\ \A a \in 1..Len(cas) :
               Cardinality({<<n, i>> \in (1..Len(neos)) \X (1..Len(cas)) :
                               i \in DOMAIN neos[n].approaches /\ neos[n].approaches[i] = a}) <= 1

\* A constructed database whose sort reordered two approaches of one NEO.
C10_Witness ==
    /\ pc = "ready"
    /\ isList
    /\ \E n \in 1..Len(neos) : neos[n].approaches = <<1, 2, 3>>
    /\ approaches = <<2, 1, 3>>

\* ---------------------------------------------------- properties of the sort

\* time_str + str(distance) + str(velocity) + str(neo.diameter) + str(neo.hazardous)
TieBreakKey(a) ==
    FloatStr(cas[a].distance) \o FloatStr(cas[a].velocity)
    \o FloatStr(neos[cas[a].neo].diameter) \o BoolStr(neos[cas[a].neo].hazardous)

CompositeKey(a) == datetime_to_str(cas[a].time) \o TieBreakKey(a)

AllLinked == \A a \in 1..Len(cas) : cas[a].neo # 0

IsPermutationOfInput ==
    /\ Len(approaches) = Len(cas)
    /\ Range(approaches) = 1..Len(cas)

SortedByCompositeKey ==
    \A i, j \in 1..Len(approaches) :
        i < j => ~StrLt(CompositeKey(approaches[j]), CompositeKey(approaches[i]))

\* Times are non-decreasing along the collection, and approaches of one
\* timestamp are ordered by the rest of the key.
TimeOrdered ==
    \A i, j \in 1..Len(approaches) :
        i < j =>
            /\ DatetimeLe(cas[approaches[i]].time, cas[approaches[j]].time)
            /\ cas[approaches[i]].time = cas[approaches[j]].time
                   => ~StrLt(TieBreakKey(approaches[j]), TieBreakKey(approaches[i]))

\* Every timestamp formats to the 16 characters of YYYY-MM-DD hh:mm.
FixedWidthTimes == \A a \in 1..Len(cas) : Len(datetime_to_str(cas[a].time)) = 16

\* C9 as stated: after construction with every approach linked the collection
\* is a permutation of the input in non-decreasing order of the composite
\* key, and so in non-decreasing order of time with ties broken by the rest.
C9_SortedAsStated ==
    (pc = "ready" /\ AllLinked) =>
        IsPermutationOfInput /\ SortedByCompositeKey /\ TimeOrdered

\* C9 amended: after construction with every approach linked and the
\* collection passed as a list, the collection is a permutation of the input
\* in non-decreasing order of the composite key; when every timestamp string
\* has the full 16 characters it is also in non-decreasing order of time
\* with ties broken by the rest of the key.
C9_Sorted ==
    (pc = "ready" /\ AllLinked /\ isList) =>
        /\ IsPermutationOfInput
        /\ SortedByCompositeKey
        /\ FixedWidthTimes => TimeOrdered

\* A constructed list whose sort swapped two approaches of one timestamp.
C9_Witness ==
    /\ pc = "ready"
    /\ isList
    /\ approaches = <<3, 2, 1>>
    /\ cas[1].time = cas[2].time
    /\ cas[3].time # cas[2].time
    /\ FixedWidthTimes

\* ------------------------------------------------------ properties of query

IsPrefix(s, t) == Len(s) <= Len(t) /\ SubSeq(t, 1, Len(s)) = s

\* Every filter of fs whose value is set accepts approach a.
EverySetFilterAccepts(fs, a) ==
    \A k \in 1..Len(fs) : fs[k].value # None => FilterCall(fs[k], cas[a])

\* fs without its unset filters.
WithoutUnset(fs) == SelectSeq(fs, LAMBDA f : f.value # None)

\* Approach a's join key is the designation of no input NEO.
Unmatched(a) == \A n \in 1..Len(neos) : neos[n].designation # cas[a].designation

\* C2: constructing a database over an approach whose join key matches no
\* NEO completes; the approach keeps neo = None, stays in the collection and
\* is yielded by an unfiltered query.
C2_UnmatchedKept ==
    (pc # "new" /\ \E a \in 1..Len(cas) : Unmatched(a)) =>
        /\ pc = "ready"
        /\ \A a \in 1..Len(cas) :
               Unmatched(a) =>
                   /\ cas[a].neo = 0
                   /\ a \in Range(approaches)
                   /\ \A g \in Generators :
                          (gens[g].state = "exhausted" /\ gens[g].filters = <<>>)
                              => a \in Range(gens[g].out)

\* C5: what a generator has yielded is exactly the approaches, among those it
\* has passed, that every set filter accepts; no unset filter is ever
\* invoked; and two exhausted generators whose filters differ only in unset
\* ones have yielded the same sequence.
C5_FilterSemantics ==
    /\ \A g \in Generators :
           gens[g].out = SelectSeq(SubSeq(approaches, 1, gens[g].pos),
                                   LAMBDA a : EverySetFilterAccepts(gens[g].filters, a))
    /\ \A g \in Generators : gens[g].state = "exhausted" => gens[g].pos = Len(approaches)
    /\ \A c \in calls : gens[c[1]].filters[c[2]].value # None
    /\ \A g, h \in Generators :
           (/\ gens[g].state = "exhausted"
            /\ gens[h].state = "exhausted"
            /\ WithoutUnset(gens[g].filters) = WithoutUnset(gens[h].filters))
               => gens[g].out = gens[h].out

\* An exhausted generator with an unset filter that yielded some approaches and
\* rejected others, beside the exhausted generator without that filter.
C5_Witness ==
    /\ gens[1].state = "exhausted"
    /\ gens[2].state = "exhausted"
    /\ Len(gens[1].filters) = 2
    /\ gens[1].filters[1].value = None
    /\ gens[2].filters = <<gens[1].filters[2]>>
    /\ gens[1].out # <<>>
    /\ Len(gens[1].out) < Len(approaches)

\* C6: a query with no filters, run to its end, has yielded the database's
\* approach collection: each element once, in the collection's order.
C6_Unfiltered ==
    \A g \in Generators :
        (gens[g].state = "exhausted" /\ gens[g].filters = <<>>) => gens[g].out = approaches

\* An exhausted unfiltered query over a list that the sort reordered.
C6_Witness ==
    /\ gens[1].state = "exhausted"
    /\ gens[1].filters = <<>>
    /\ isList
    /\ gens[1].out = <<2, 3, 1>>

\* The filters invoked for generator g were invoked on approaches at container
\* positions up to p only.
CallsWithin(g, p) ==
    \A c \in calls : c[1] = g => \E i \in 1..p : approaches[i] = c[3]

\* No filter has run for a generator that was not pulled from; a generator
\* suspended after its k-th result has run filters on the collection up to
\* that result only.
LazyState ==
    \A g \in Generators :
        /\ gens[g].state \in {"none", "created"} =>
               gens[g].pos = 0 /\ gens[g].out = <<>> /\ CallsWithin(g, 0)
        /\ gens[g].state = "suspended" =>
               /\ gens[g].out # <<>>
               /\ gens[g].pos \in 1..Len(approaches)
               /\ approaches[gens[g].pos] = gens[g].out[Len(gens[g].out)]
               /\ Cardinality({i \in 1..gens[g].pos :
                      EverySetFilterAccepts(gens[g].filters, approaches[i])}) = Len(gens[g].out)
               /\ CallsWithin(g, gens[g].pos)

\* C7: query is lazy, and no step of a query changes the database.
C7_Lazy ==
    [][LazyState' /\ (pc = "ready" => UNCHANGED dbvars)]_vars

\* A generator suspended at its first result, before the end of the collection,
\* whose filters ran on the approaches before it.
C7_Witness ==
    /\ gens[1].state = "suspended"
    /\ Len(gens[1].out) = 1
    /\ gens[1].pos = 2
    /\ gens[1].pos < Len(approaches)
    /\ \E c \in calls : c[1] = 1 /\ c[3] = approaches[1]
    /\ gens[2].state = "none"

\* C8: two generators of one filter collection yield the same sequence,
\* whatever the interleaving of the pulls: at any moment one has yielded a
\* prefix of what the other has, each as far as it was pulled, and once
\* both are exhausted the two sequences are equal.
C8_Independent ==
    \A g, h \in Generators :
        (/\ gens[g].state # "none"
         /\ gens[h].state # "none"
         /\ gens[g].filters = gens[h].filters)
            => /\ IsPrefix(gens[g].out, gens[h].out) \/ IsPrefix(gens[h].out, gens[g].out)
               /\ gens[g].pos <= gens[h].pos => IsPrefix(gens[g].out, gens[h].out)
               /\ (gens[g].state = "exhausted" /\ gens[h].state = "exhausted")
                      => gens[g].out = gens[h].out

\* One generator suspended at its first result while the other, of the same
\* filters, is exhausted with more.
C8_Witness ==
    /\ gens[1].state = "suspended"
    /\ gens[2].state = "exhausted"
    /\ gens[1].filters = gens[2].filters
    /\ gens[1].filters # <<>>
    /\ Len(gens[1].out) = 1
    /\ Len(gens[2].out) = 2

====
